---- MODULE Spec2Model ----
(***************************************************************************)
(* Model of the Memex backup path: the change classifier                   *)
(* (src/backup/background/backend/utils.ts) and the SimpleHttpBackend      *)
(* coordinator (class SimpleHttpBackend in                                 *)
(* src/custom-lists/background/storage.ts).                                *)
(*                                                                         *)
(* Two specifications share the operators that model the pure functions:   *)
(*   SpecClassify  applies separateDataFromImageChanges and                *)
(*                 shouldWriteImages to every bounded change batch;        *)
(*   Spec          runs backupChanges invocations, possibly interleaved,   *)
(*                 against one remote store;                               *)
(*   SpecVersions  is Spec with two schema versions and fewer batches;     *)
(*   SpecRemote    runs listObjects and deleteObject;                      *)
(*   SpecLists     runs interleaved CustomListStorage operations.          *)
(***************************************************************************)
EXTENDS Integers, Sequences, FiniteSets, TLC

\* State of Spec: the backupChanges invocations made so far, the value
\* Date.now() returned last, the
\* remote store behind the HTTP server, and the telemetry sink.
VARIABLES calls, clock, store, writtenBy, captured
\* State of SpecClassify: one classifier run and one policy decision.
VARIABLES cIn, cPhase, cOut, cFlag, cDecision

\* State of SpecRemote: the last listObjects / deleteObject call, the response
\* it got, its result, and the number of fetch calls made so far.
VARIABLES rOp, rResponse, rResult, rRequests
\* State of SpecLists: the two collections of CustomListStorage and the
\* operations called so far.
VARIABLES customLists, pageListEntries, ops

vars == <<calls, clock, store, writtenBy, captured>>
cvars == <<cIn, cPhase, cOut, cFlag, cDecision>>
rvars == <<rOp, rResponse, rResult, rRequests>>
lvars == <<customLists, pageListEntries, ops>>
allvars == <<vars, cvars, rvars, lvars>>

\* ------------------------------------------------------------------ bounds
\* Longest change batch handed to the classifier in SpecClassify.
MaxLen == 2
\* Number of backupChanges invocations in one behaviour of Spec.
MaxCalls == 2
\* Largest value Date.now() takes in one behaviour of Spec.
MaxClock == 2
\* Longest listing body, in lines, answered to listObjects in SpecRemote.
MaxLines == 2
\* Number of fetch calls in one behaviour of SpecRemote.
MaxRequests == 2
\* Number of CustomListStorage operations called in one behaviour of SpecLists.
MaxOps == 3

\* ------------------------------------------------------------------ values
\* JavaScript null and undefined, as field values.
NULL == "null"
UNDEF == "undefined"
\* change.object == null (a delete carries no object).
NullObject == [isNull |-> TRUE]

\* Raw binary payloads.  encodeBlob succeeds on rawA and throws on rawX.
RawBlobs == {"rawA", "rawX"}
FieldValues == {NULL} \cup RawBlobs
Collections == {"pages", "favIcons", "customLists"}
PKs == {"k1", "k2"}
Objects == {NullObject} \cup [screenshot : FieldValues, favIcon : FieldValues]
ChangeRecords == [collection : Collections, objectPk : PKs, object : Objects]

SeqsUpTo(S, n) == UNION {[1..k -> S] : k \in 0..n}

\* A field value that is neither null nor undefined (JavaScript `!= null`).
NotNullish(v) == v \notin {NULL, UNDEF}

\* ------------------------------------------------------- src/util/encode-blob
\* The injected blob encoder: a deterministic function of the blob that
\* either yields the encoded form or throws.
encodeBlob(blob) ==
    IF blob = "rawA" THEN [ok |-> TRUE, val |-> "encA"]
    ELSE [ok |-> FALSE, val |-> UNDEF]

\* ---------------------------------------------------------------- utils.ts
\* Value left in change.object.screenshot after the extraction attempt.
ClearedScreenshot == UNDEF

\* The screenshot branch is taken for this change.
TakesScreenshot(change) ==
    /\ change.collection = "pages"
    /\ change.object # NullObject
    /\ NotNullish(change.object.screenshot)

\* The favIcon branch is taken for this change.
TakesFavIcon(change) ==
    /\ change.collection = "favIcons"
    /\ change.object # NullObject
    /\ NotNullish(change.object.favIcon)

\* Variant: the screenshot is cleared for a record of any collection.
AfterScreenshotAnyCollection(change) ==
    IF change.object # NullObject /\ NotNullish(change.object.screenshot)
    THEN [change EXCEPT !.object.screenshot = ClearedScreenshot]
    ELSE change

\* Variant: the screenshot is cleared inside the try block, so it survives
\* an encoder failure.
AfterScreenshotKeptOnFailure(change) ==
    IF TakesScreenshot(change) /\ encodeBlob(change.object.screenshot).ok
    THEN [change EXCEPT !.object.screenshot = ClearedScreenshot]
    ELSE change

\* The change after the screenshot branch.
AfterScreenshot(change) ==
    IF TakesScreenshot(change)
    THEN [change EXCEPT !.object.screenshot = ClearedScreenshot]
    ELSE change

\* Variant: the favIcon is overwritten with the (absent) encoder result even
\* when the encoder throws.
AfterFavIconClearsOnFailure(change) ==
    IF TakesFavIcon(change)
    THEN [change EXCEPT !.object.favIcon = encodeBlob(change.object.favIcon).val]
    ELSE change

\* The change after the favIcon branch: encoded in place, or left as it is
\* when the encoder throws.
AfterFavIcon(change) ==
    IF TakesFavIcon(change) /\ encodeBlob(change.object.favIcon).ok
    THEN [change EXCEPT !.object.favIcon = encodeBlob(change.object.favIcon).val]
    ELSE change

\* Variant: images.screenshot is assigned whether or not the encoder threw.
ChangeImagesOnFailure(change) ==
    IF TakesScreenshot(change)
    THEN <<[type |-> "screenshot", data |-> encodeBlob(change.object.screenshot).val]>>
    ELSE <<>>

\* The `images` object returned for one change, as its Object.entries list.
ChangeImages(change) ==
    IF TakesScreenshot(change) /\ encodeBlob(change.object.screenshot).ok
    THEN <<[type |-> "screenshot", data |-> encodeBlob(change.object.screenshot).val]>>
    ELSE <<>>

\* Number of Raven.captureException calls made for one change.
ChangeCaptures(change) ==
    (IF TakesScreenshot(change) /\ ~encodeBlob(change.object.screenshot).ok
     THEN 1 ELSE 0)
    + (IF TakesFavIcon(AfterScreenshot(change))
          /\ ~encodeBlob(AfterScreenshot(change).object.favIcon).ok
       THEN 1 ELSE 0)

\* _prepareBackupChangeForStorage: the change as mutated in place, the images
\* it returns and the exceptions it reports.  It never throws.
_prepareBackupChangeForStorage(change) ==
    [change   |-> AfterFavIcon(AfterScreenshot(change)),
     images   |-> ChangeImages(change),
     captured |-> ChangeCaptures(change)]

\* One ExtractedImage pushed by separateDataFromImageChanges.  The collection
\* and pk are read from the change after it was mutated (the same object).
ImageEntry(change, entry) ==
    [collection |-> change.collection,
     pk         |-> change.objectPk,
     type       |-> entry.type,
     data       |-> entry.data]

RECURSIVE separateDataFromImageChanges(_)
\* The for-of loop over the batch, front to back.
separateDataFromImageChanges(changes) ==
    IF changes = <<>>
    THEN [changes |-> <<>>, images |-> <<>>, captured |-> 0]
    ELSE LET p    == _prepareBackupChangeForStorage(Head(changes))
             rest == separateDataFromImageChanges(Tail(changes))
         IN  [changes  |-> <<p.change>> \o rest.changes,
              images   |-> [k \in 1..Len(p.images) |->
                               ImageEntry(p.change, p.images[k])]
                           \o rest.images,
              captured |-> p.captured + rest.captured]

\* Variant: the storeBlobs flag is not consulted.
shouldWriteImagesIgnoresFlag(images, storeBlobs) == Len(images) # 0

\* Variant: an empty image list is not checked for.
shouldWriteImagesIgnoresLength(images, storeBlobs) == storeBlobs

shouldWriteImages(images, storeBlobs) == storeBlobs /\ Len(images) # 0

\* ------------------------------------------------- SimpleHttpBackend (Spec)
SchemaVersions == {1}

\* The change batches handed to backupChanges in Spec.
listRec == [collection |-> "customLists", objectPk |-> "k1",
            object |-> [screenshot |-> NULL, favIcon |-> NULL]]
pgA == [collection |-> "pages", objectPk |-> "k1",
        object |-> [screenshot |-> "rawA", favIcon |-> NULL]]
pgX == [collection |-> "pages", objectPk |-> "k2",
        object |-> [screenshot |-> "rawX", favIcon |-> NULL]]
favX == [collection |-> "favIcons", objectPk |-> "k1",
         object |-> [screenshot |-> NULL, favIcon |-> "rawX"]]
BackupBatches == {<<listRec>>, <<pgX, favX>>, <<pgX, pgA>>}

\* The classifier has not run.
NoOutput == [changes |-> <<>>, images |-> <<>>, captured |-> 0]

Timestamps == 1..MaxClock
Paths == {"change-sets", "images"} \X Timestamps

\* No object under a path of the remote store.
Absent == [absent |-> TRUE]
\* No invocation has written a path.
Nobody == 0

\* Variant: properties holding null are dropped like undefined ones.
JsonObjectDropsNull(obj) ==
    IF obj = NullObject THEN NullObject
    ELSE [f \in {g \in DOMAIN obj : obj[g] \notin {UNDEF, NULL}} |-> obj[f]]

\* JSON.stringify drops the properties whose value is undefined.
JsonObject(obj) ==
    IF obj = NullObject THEN NullObject
    ELSE [f \in {g \in DOMAIN obj : obj[g] # UNDEF} |-> obj[f]]

JsonChange(change) ==
    [collection |-> change.collection,
     objectPk   |-> change.objectPk,
     object     |-> JsonObject(change.object)]

\* stringify({ version: currentSchemaVersion, changes })
ChangesBody(version, changes) ==
    [version |-> version,
     changes |-> [k \in 1..Len(changes) |-> JsonChange(changes[k])]]

\* stringify({ version: currentSchemaVersion, images })
ImagesBody(version, images) ==
    [version |-> version, images |-> images]

ChangesPath(call) == <<"change-sets", call.timestamp>>
\* Variant: the images path takes a second Date.now().
ImagesPathFreshTimestamp(call) == <<"images", clock>>

ImagesPath(call) == <<"images", call.timestamp>>

\* How the server and the network answer one PUT.
PutOutcomes == {"networkError", "serverError", "ok"}

\* Variant: a PUT onto an existing object appends to it instead of replacing
\* it.
PutEffectMerges(st, path, body, outcome) ==
    IF outcome # "ok" THEN st
    ELSE IF st[path] = [absent |-> TRUE] THEN [st EXCEPT ![path] = body]
    ELSE IF path[1] = "change-sets"
    THEN [st EXCEPT ![path] = [version |-> st[path].version,
                               changes |-> st[path].changes \o body.changes]]
    ELSE [st EXCEPT ![path] = [version |-> st[path].version,
                               images |-> st[path].images \o body.images]]

\* The remote store after a PUT: the object is replaced when the server
\* accepts the request, and untouched otherwise.
PutEffect(st, path, body, outcome) ==
    IF outcome = "ok" THEN [st EXCEPT ![path] = body] ELSE st

\* _writeToPath awaits fetch and never looks at the response: it throws only
\* when fetch itself rejects (a network error).
_writeToPathThrows(outcome) == outcome = "networkError"

NewPut(path, body) == [path |-> path, body |-> body, status |-> "inflight"]

\* No listObjects / deleteObject call has been made.
NoResult == [kind |-> "none"]
NoResponse == [kind |-> "none"]
RemoteUnused ==
    /\ rOp = [op |-> "none"]
    /\ rResponse = NoResponse
    /\ rResult = NoResult
    /\ rRequests = 0

\* CustomListStorage right after construction: both collections are empty.
ListsUnused ==
    /\ customLists = {}
    /\ pageListEntries = {}
    /\ ops = <<>>

\* retrieveObject(collection, object): the parsed body of the GET response;
\* the call rejects when there is no such object to parse.
retrieveObject(st, collection, object) ==
    IF st[<<collection, object>>] = Absent
    THEN [kind |-> "rejected"]
    ELSE st[<<collection, object>>]

Init ==
    /\ calls = <<>>
    /\ clock = 1
    /\ store = [p \in Paths |-> Absent]
    /\ writtenBy = [p \in Paths |-> Nobody]
    /\ captured = 0
    /\ cIn = <<>>
    /\ cPhase = "unused"
    /\ cOut = NoOutput
    /\ cFlag = FALSE
    /\ cDecision = FALSE
    /\ RemoteUnused
    /\ ListsUnused

\* The values Date.now() can return next: wall-clock milliseconds, never
\* below the value it returned last (clock).
DateNow == clock..MaxClock

\* backupChanges is called; it suspends in separateDataFromImageChanges.
BackupChanges(changes, version, storeBlobs) ==
    /\ Len(calls) < MaxCalls
    /\ calls' = Append(calls,
          [input      |-> changes,
           version    |-> version,
           storeBlobs |-> storeBlobs,
           pc         |-> "classify",
           changes    |-> <<>>,
           images     |-> <<>>,
           captured   |-> 0,
           timestamp  |-> 0,
           puts       |-> <<>>])
    /\ UNCHANGED <<clock, store, writtenBy, captured, cvars, rvars, lvars>>

\* Variant: the change-sets PUT is not awaited, so the images PUT is issued
\* together with it.
AfterClassifyWithoutAwait(call, now) ==
    LET out   == separateDataFromImageChanges(call.input)
        taken == [call EXCEPT !.changes = out.changes,
                              !.images = out.images,
                              !.captured = out.captured,
                              !.timestamp = now]
        first == NewPut(<<"change-sets", now>>,
                        ChangesBody(taken.version, taken.changes))
        second == NewPut(<<"images", now>>,
                         ImagesBody(taken.version, taken.images))
    IN  [taken EXCEPT !.pc = "putChanges",
                      !.puts = IF shouldWriteImages(taken.images, taken.storeBlobs)
                               THEN <<first, second>> ELSE <<first>>]

\* Variant: an encoder failure is rethrown after being reported, which
\* rejects the invocation before any PUT.
AfterClassifyRethrows(call, now) ==
    LET out   == separateDataFromImageChanges(call.input)
        taken == [call EXCEPT !.changes = out.changes,
                              !.images = out.images,
                              !.captured = out.captured,
                              !.timestamp = now]
    IN  IF out.captured > 0
        THEN [taken EXCEPT !.pc = "rejected"]
        ELSE [taken EXCEPT !.pc = "putChanges",
                           !.puts = <<NewPut(<<"change-sets", now>>,
                                        ChangesBody(taken.version, taken.changes))>>]

\* What backupChanges does when the classifier returns at time `now`: it keeps
\* the classifier's output, takes the timestamp and issues the change-sets PUT.
AfterClassify(call, now) ==
    LET out   == separateDataFromImageChanges(call.input)
        taken == [call EXCEPT !.changes = out.changes,
                              !.images = out.images,
                              !.captured = out.captured,
                              !.timestamp = now]
    IN  [taken EXCEPT !.pc = "putChanges",
                      !.puts = <<NewPut(ChangesPath(taken),
                                        ChangesBody(taken.version, taken.changes))>>]

\* The classifier of invocation i returns; Date.now() is read.
Classified(i) ==
    /\ calls[i].pc = "classify"
    /\ \E now \in DateNow :
          /\ clock' = now
          /\ calls' = [calls EXCEPT ![i] = AfterClassify(calls[i], now)]
    /\ captured' = captured + calls'[i].captured
    /\ UNCHANGED <<store, writtenBy, cvars, rvars, lvars>>

\* Variant: the images PUT is issued without asking shouldWriteImages.
AfterChangesWriteAlwaysImages(call, outcome) ==
    LET done == [call EXCEPT !.puts[1].status = outcome]
    IN  IF outcome = "networkError"
        THEN [done EXCEPT !.pc = "rejected"]
        ELSE [done EXCEPT !.pc = "putImages",
                          !.puts = Append(done.puts,
                                     NewPut(<<"images", done.timestamp>>,
                                            ImagesBody(done.version, done.images)))]

\* What backupChanges does once the change-sets PUT has been answered.
AfterChangesWrite(call, outcome) ==
    LET done == [call EXCEPT !.puts[1].status = outcome]
    IN  IF _writeToPathThrows(outcome)
        THEN [done EXCEPT !.pc = "rejected"]
        ELSE IF shouldWriteImages(done.images, done.storeBlobs)
        THEN [done EXCEPT !.pc = "putImages",
                          !.puts = Append(done.puts,
                                     NewPut(ImagesPath(done),
                                            ImagesBody(done.version, done.images)))]
        ELSE [done EXCEPT !.pc = "resolved"]

\* What backupChanges does once the images PUT has been answered.
AfterImagesWrite(call, outcome) ==
    LET done == [call EXCEPT !.puts[2].status = outcome]
    IN  IF _writeToPathThrows(outcome)
        THEN [done EXCEPT !.pc = "rejected"]
        ELSE [done EXCEPT !.pc = "resolved"]

\* The change-sets PUT of invocation i is answered.
ChangesWriteReturns(i) ==
    /\ calls[i].pc = "putChanges"
    /\ \E outcome \in PutOutcomes :
          /\ store' = PutEffect(store, calls[i].puts[1].path,
                                calls[i].puts[1].body, outcome)
          /\ writtenBy' = IF outcome = "ok"
                          THEN [writtenBy EXCEPT ![calls[i].puts[1].path] = i]
                          ELSE writtenBy
          /\ calls' = [calls EXCEPT ![i] = AfterChangesWrite(calls[i], outcome)]
    /\ UNCHANGED <<clock, captured, cvars, rvars, lvars>>

\* The images PUT of invocation i is answered.
ImagesWriteReturns(i) ==
    /\ calls[i].pc = "putImages"
    /\ \E outcome \in PutOutcomes :
          /\ store' = PutEffect(store, calls[i].puts[2].path,
                                calls[i].puts[2].body, outcome)
          /\ writtenBy' = IF outcome = "ok"
                          THEN [writtenBy EXCEPT ![calls[i].puts[2].path] = i]
                          ELSE writtenBy
          /\ calls' = [calls EXCEPT ![i] = AfterImagesWrite(calls[i], outcome)]
    /\ UNCHANGED <<clock, captured, cvars, rvars, lvars>>

Next ==
    \/ \E changes \in BackupBatches, version \in SchemaVersions, storeBlobs \in BOOLEAN :
          BackupChanges(changes, version, storeBlobs)
    \/ \E i \in 1..Len(calls) : Classified(i)
    \/ \E i \in 1..Len(calls) : ChangesWriteReturns(i)
    \/ \E i \in 1..Len(calls) : ImagesWriteReturns(i)

Spec == Init /\ [][Next]_allvars


\* ------------------------------------------------------------ claims (Spec)
CallIds == 1..Len(calls)
Finished(call) == call.pc \in {"resolved", "rejected"}
Quiescent == \A i \in CallIds : Finished(calls[i])
Exists(path) == store[path] # Absent

\* C1: when the change-sets PUT fails (a network error or a server error
\* response), the invocation is rejected towards its caller and it issues
\* no images PUT.
C1_FailedChangesWriteAborts ==
    \A i \in CallIds :
        (/\ Len(calls[i].puts) >= 1
         /\ calls[i].puts[1].status \in {"serverError", "networkError"})
        => (calls[i].pc = "rejected" /\ Len(calls[i].puts) = 1)

\* C2: within one invocation the images PUT is issued only after the
\* change-sets PUT of that invocation has been answered: the first PUT is the
\* change-sets one, the second the images one, and the two are never in
\* flight together.
C2_ImagesAfterChanges ==
    \A i \in CallIds :
        /\ Len(calls[i].puts) <= 2
        /\ Len(calls[i].puts) >= 1 => calls[i].puts[1].path[1] = "change-sets"
        /\ Len(calls[i].puts) = 2 =>
              /\ calls[i].puts[2].path[1] = "images"
              /\ calls[i].puts[1].status # "inflight"

C2_Witness ==
    \E i \in CallIds :
        /\ Len(calls[i].puts) = 2
        /\ calls[i].puts[1].status = "ok"
        /\ calls[i].puts[2].status = "inflight"

\* C3: an invocation with storeBlobs = false issues exactly one PUT, to
\* change-sets/{t}, and never one to images/{t}, whatever images its batch
\* yields.
C3_NoImagesWithoutStoreBlobs ==
    \A i \in CallIds :
        ~calls[i].storeBlobs =>
            /\ \A k \in 1..Len(calls[i].puts) : calls[i].puts[k].path[1] # "images"
            /\ calls[i].pc # "classify" =>
                  /\ Len(calls[i].puts) = 1
                  /\ calls[i].puts[1].path = <<"change-sets", calls[i].timestamp>>

C3_Witness ==
    \E i \in CallIds :
        /\ ~calls[i].storeBlobs
        /\ Len(calls[i].images) > 0
        /\ calls[i].pc = "resolved"
        /\ calls[i].puts[1].status = "ok"

\* C4: an invocation with storeBlobs = true whose batch yields an image and
\* whose writes succeed issues exactly two PUTs, change-sets/{t} and then
\* images/{t}, with the one timestamp t it took.
C4_TwoWritesSameTimestamp ==
    \A i \in CallIds :
        (/\ calls[i].storeBlobs
         /\ Len(calls[i].images) > 0
         /\ calls[i].pc = "resolved"
         /\ \A k \in 1..Len(calls[i].puts) : calls[i].puts[k].status = "ok")
        => /\ Len(calls[i].puts) = 2
           /\ calls[i].puts[1].path = <<"change-sets", calls[i].timestamp>>
           /\ calls[i].puts[2].path = <<"images", calls[i].timestamp>>
           /\ calls[i].puts[1].path[2] = calls[i].puts[2].path[2]

C4_Witness ==
    \E i \in CallIds :
        /\ calls[i].storeBlobs
        /\ Len(calls[i].images) > 0
        /\ calls[i].pc = "resolved"
        /\ Len(calls[i].puts) = 2
        /\ calls[i].puts[1].status = "ok"
        /\ calls[i].puts[2].status = "ok"
        /\ clock > calls[i].timestamp

\* C5 as claimed: once every invocation has ended, for each timestamp t with
\* a change-sets/{t} object, images/{t} exists exactly if shouldWriteImages
\* returned true for the batch stored under change-sets/{t}.
C5_ImagesIffPolicy ==
    Quiescent =>
        \A t \in Timestamps :
            Exists(<<"change-sets", t>>) =>
                (Exists(<<"images", t>>)
                    <=> shouldWriteImages(
                            calls[writtenBy[<<"change-sets", t>>]].images,
                            calls[writtenBy[<<"change-sets", t>>]].storeBlobs))

\* C5 as amended: for each timestamp t, images/{t} exists exactly if some
\* invocation stamped t had shouldWriteImages return true and had its images
\* PUT accepted by the server.
C5_ImagesIffPolicyAndWritten ==
    \A t \in Timestamps :
        Exists(<<"images", t>>) <=>
            \E i \in CallIds :
                /\ calls[i].timestamp = t
                /\ shouldWriteImages(calls[i].images, calls[i].storeBlobs)
                /\ Len(calls[i].puts) = 2
                /\ calls[i].puts[2].status = "ok"

C5_Witness ==
    /\ Quiescent
    /\ \E t \in Timestamps :
          /\ Exists(<<"change-sets", t>>)
          /\ Exists(<<"images", t>>)
    /\ \E t \in Timestamps :
          /\ Exists(<<"change-sets", t>>)
          /\ ~Exists(<<"images", t>>)
          /\ shouldWriteImages(calls[writtenBy[<<"change-sets", t>>]].images,
                               calls[writtenBy[<<"change-sets", t>>]].storeBlobs)

\* A "pages" record of a serialized changes-object that carries a raw
\* screenshot.
HasRawScreenshot(jsonChange) ==
    /\ jsonChange.collection = "pages"
    /\ jsonChange.object # NullObject
    /\ "screenshot" \in DOMAIN jsonChange.object
    /\ jsonChange.object.screenshot \in RawBlobs

\* C6: for every "pages" record with a non-null screenshot the field is
\* cleared after the extraction attempt, whether the encoder succeeded or
\* threw; no change-sets body that is sent or stored carries a raw
\* screenshot, so a screenshot is never both in the changes-object and in the
\* images-object of a batch.
C6_ScreenshotCleared ==
    /\ \A i \in CallIds :
          calls[i].pc # "classify" =>
              /\ \A k \in 1..Len(calls[i].input) :
                    TakesScreenshot(calls[i].input[k]) =>
                        /\ calls[i].changes[k].object.screenshot = UNDEF
                        /\ "screenshot" \notin
                               DOMAIN calls[i].puts[1].body.changes[k].object
              /\ \A k \in 1..Len(calls[i].puts[1].body.changes) :
                    ~HasRawScreenshot(calls[i].puts[1].body.changes[k])
    /\ \A t \in Timestamps :
          Exists(<<"change-sets", t>>) =>
              \A k \in 1..Len(store[<<"change-sets", t>>].changes) :
                  ~HasRawScreenshot(store[<<"change-sets", t>>].changes[k])

C6_Witness ==
    \E i \in CallIds :
        /\ \E k \in 1..Len(calls[i].input) :
              /\ TakesScreenshot(calls[i].input[k])
              /\ ~encodeBlob(calls[i].input[k].object.screenshot).ok
        /\ \E k \in 1..Len(calls[i].input) :
              /\ TakesScreenshot(calls[i].input[k])
              /\ encodeBlob(calls[i].input[k].object.screenshot).ok
        /\ Len(calls[i].puts) = 2
        /\ calls[i].puts[2].status = "ok"
        /\ store[<<"change-sets", calls[i].timestamp>>] = calls[i].puts[1].body

\* Number of encoder failures the classifier meets in a batch.
EncodingFailures(changes) ==
    Cardinality({k \in 1..Len(changes) :
                    /\ TakesScreenshot(changes[k])
                    /\ ~encodeBlob(changes[k].object.screenshot).ok})
    + Cardinality({k \in 1..Len(changes) :
                    /\ TakesFavIcon(changes[k])
                    /\ ~encodeBlob(changes[k].object.favIcon).ok})

\* Number of screenshots the classifier extracts from a batch.
EncodedScreenshots(changes) ==
    Cardinality({k \in 1..Len(changes) :
                    /\ TakesScreenshot(changes[k])
                    /\ encodeBlob(changes[k].object.screenshot).ok})

RECURSIVE CapturedUpTo(_)
CapturedUpTo(n) == IF n = 0 THEN 0 ELSE calls[n].captured + CapturedUpTo(n - 1)

\* C9: an encoder failure never aborts a backup cycle: once the classifier
\* has returned, the invocation has issued its change-sets/{t} PUT with one
\* record per input record, in order; every failure was reported to the
\* telemetry sink; and only the blobs that failed are missing from the images.
C9_EncodingFailureNeverAborts ==
    /\ \A i \in CallIds :
          calls[i].pc # "classify" =>
              /\ Len(calls[i].puts) >= 1
              /\ calls[i].puts[1].path = <<"change-sets", calls[i].timestamp>>
              /\ Len(calls[i].puts[1].body.changes) = Len(calls[i].input)
              /\ \A k \in 1..Len(calls[i].input) :
                    /\ calls[i].puts[1].body.changes[k].collection
                          = calls[i].input[k].collection
                    /\ calls[i].puts[1].body.changes[k].objectPk
                          = calls[i].input[k].objectPk
              /\ calls[i].captured = EncodingFailures(calls[i].input)
              /\ Len(calls[i].images) = EncodedScreenshots(calls[i].input)
    /\ captured = CapturedUpTo(Len(calls))

C9_Witness ==
    \E i \in CallIds :
        /\ EncodingFailures(calls[i].input) = 2
        /\ calls[i].pc = "resolved"
        /\ store[<<"change-sets", calls[i].timestamp>>] = calls[i].puts[1].body

\* Invocations i and j were called with equal arguments.
SameArguments(i, j) ==
    /\ calls[i].input = calls[j].input
    /\ calls[i].version = calls[j].version
    /\ calls[i].storeBlobs = calls[j].storeBlobs

\* The invocation resolved and the server accepted each of its PUTs.
AllAccepted(call) ==
    /\ call.pc = "resolved"
    /\ \A k \in 1..Len(call.puts) : call.puts[k].status = "ok"

\* The paths an invocation has issued a PUT to.
PutPaths(call) == {call.puts[k].path : k \in 1..Len(call.puts)}

C16_FailedCycleFrame ==
    \A i \in CallIds :
        /\ (/\ Len(calls[i].puts) >= 1
            /\ calls[i].puts[1].status \in {"serverError", "networkError"})
           => \A p \in Paths : writtenBy[p] # i
        /\ (/\ Len(calls[i].puts) = 2
            /\ calls[i].puts[1].status = "ok"
            /\ calls[i].puts[2].status \in {"serverError", "networkError"})
           => /\ Exists(calls[i].puts[1].path)
              /\ \A p \in Paths :
                    writtenBy[p] = i => p = calls[i].puts[1].path

\* The batch has no field the classifier treats as an image.
NoImageFields(changes) ==
    \A k \in 1..Len(changes) :
        ~TakesScreenshot(changes[k]) /\ ~TakesFavIcon(changes[k])

Stamped(t) == {i \in CallIds : calls[i].pc # "classify" /\ calls[i].timestamp = t}

\* C19 as claimed: whenever change-sets/{t} and images/{t} both exist, one
\* invocation wrote both; and every invocation that completed successfully
\* still has its changes body stored under its timestamp.
C19_SameWriter ==
    /\ \A t \in Timestamps :
          (Exists(<<"change-sets", t>>) /\ Exists(<<"images", t>>)) =>
              writtenBy[<<"change-sets", t>>] = writtenBy[<<"images", t>>]
    /\ \A i \in CallIds :
          AllAccepted(calls[i]) =>
              store[<<"change-sets", calls[i].timestamp>>] = calls[i].puts[1].body

\* C19 as amended: the same, for the timestamps that one invocation only
\* took.
C19_SameWriterUniqueTimestamp ==
    /\ \A t \in Timestamps :
          (/\ Cardinality(Stamped(t)) = 1
           /\ Exists(<<"change-sets", t>>)
           /\ Exists(<<"images", t>>)) =>
              /\ writtenBy[<<"change-sets", t>>] = writtenBy[<<"images", t>>]
              /\ writtenBy[<<"change-sets", t>>] \in Stamped(t)
    /\ \A i \in CallIds :
          (AllAccepted(calls[i]) /\ Stamped(calls[i].timestamp) = {i}) =>
              store[<<"change-sets", calls[i].timestamp>>] = calls[i].puts[1].body

C19_Witness ==
    \E i, j \in CallIds :
        /\ i # j
        /\ AllAccepted(calls[i]) /\ AllAccepted(calls[j])
        /\ calls[i].timestamp # calls[j].timestamp
        /\ Len(calls[i].puts) = 2 /\ Len(calls[j].puts) = 2
        /\ calls[i].puts[2].status = "ok" /\ calls[j].puts[2].status = "ok"


\* ------------------------------------------------------------- SpecVersions
\* Spec with invocations made before and after a schema upgrade, on batches
\* with and without an image, blobs stored.
UpgradedVersions == {1, 2}
VersionBatches == {<<listRec>>, <<pgX, pgA>>}

NextVersions ==
    \/ \E changes \in VersionBatches, version \in UpgradedVersions :
          BackupChanges(changes, version, TRUE)
    \/ \E i \in 1..Len(calls) : Classified(i)
    \/ \E i \in 1..Len(calls) : ChangesWriteReturns(i)
    \/ \E i \in 1..Len(calls) : ImagesWriteReturns(i)

SpecVersions == Init /\ [][NextVersions]_allvars

\* C14: every object under change-sets/ and images/ is the body of one
\* invocation, the one that wrote it last: it carries that invocation's
\* version and that invocation's records only, also when invocations with
\* different schema versions wrote the same key.
C14_OneVersionPerObject ==
    \A p \in Paths :
        Exists(p) =>
            LET w == calls[writtenBy[p]]
            IN  /\ store[p].version = w.version
                /\ p[1] = "change-sets" =>
                      store[p] = ChangesBody(w.version, w.changes)
                /\ p[1] = "images" =>
                      store[p] = ImagesBody(w.version, w.images)

C14_Witness ==
    \E i, j \in CallIds :
        /\ i # j
        /\ calls[i].version # calls[j].version
        /\ calls[i].timestamp = calls[j].timestamp
        /\ Len(calls[i].puts) = 2 /\ Len(calls[j].puts) = 2
        /\ \A k \in 1..2 : calls[i].puts[k].status = "ok"
        /\ \A k \in 1..2 : calls[j].puts[k].status = "ok"
        /\ writtenBy[<<"change-sets", calls[i].timestamp>>] = i
        /\ writtenBy[<<"images", calls[i].timestamp>>] = j


\* ------------------------------------------------------------ SpecClassify
InitClassify ==
    /\ cIn \in SeqsUpTo(ChangeRecords, MaxLen)
    /\ cPhase = "input"
    /\ cOut = NoOutput
    /\ cFlag = FALSE
    /\ cDecision = FALSE
    /\ calls = <<>>
    /\ clock = 1
    /\ store = [p \in Paths |-> Absent]
    /\ writtenBy = [p \in Paths |-> Nobody]
    /\ captured = 0
    /\ RemoteUnused
    /\ ListsUnused

\* const { images, changes } = await separateDataFromImageChanges(cIn)
RunClassifier ==
    /\ cPhase = "input"
    /\ cOut' = separateDataFromImageChanges(cIn)
    /\ cPhase' = "classified"
    /\ UNCHANGED <<cIn, cFlag, cDecision, vars, rvars, lvars>>

\* shouldWriteImages(images, storeBlobs) on the classifier's images
RunPolicy ==
    /\ cPhase = "classified"
    /\ \E storeBlobs \in BOOLEAN :
          /\ cFlag' = storeBlobs
          /\ cDecision' = shouldWriteImages(cOut.images, storeBlobs)
    /\ cPhase' = "decided"
    /\ UNCHANGED <<cIn, cOut, vars, rvars, lvars>>

NextClassify == RunClassifier \/ RunPolicy

SpecClassify == InitClassify /\ [][NextClassify]_allvars

\* ---------------------------------------------------- claims (SpecClassify)
\* The input positions whose screenshot the classifier extracts, in order.
ExtractedPositions(changes) ==
    LET Extracts(k) == /\ TakesScreenshot(changes[k])
                       /\ encodeBlob(changes[k].object.screenshot).ok
    IN  SelectSeq([k \in 1..Len(changes) |-> k], Extracts)

\* C7: the images returned by separateDataFromImageChanges are, in input
\* order, exactly one entry per "pages" record with a non-null screenshot
\* that was encoded, with type "screenshot", the record's objectPk and
\* collection and the encoded blob; no other record yields an entry.
C7_ImagesExactlyExtracted ==
    cPhase \in {"classified", "decided"} =>
        LET pos == ExtractedPositions(cIn)
        IN  cOut.images =
                [j \in 1..Len(pos) |->
                    [collection |-> cIn[pos[j]].collection,
                     pk         |-> cIn[pos[j]].objectPk,
                     type       |-> "screenshot",
                     data       |-> encodeBlob(cIn[pos[j]].object.screenshot).val]]

C7_Witness ==
    /\ cPhase = "classified"
    /\ Len(cIn) = 2
    /\ TakesScreenshot(cIn[1]) /\ ~encodeBlob(cIn[1].object.screenshot).ok
    /\ Len(cOut.images) = 1
    /\ cOut.images[1].pk = cIn[2].objectPk
    /\ cIn[1].objectPk # cIn[2].objectPk

\* C8: for every "favIcons" record with a non-null favIcon, after
\* classification the favIcon field holds the encoded value when the encoder
\* succeeded and the original value when it threw, and no image is produced
\* for a "favIcons" record.
C8_FavIconEncodedInPlace ==
    cPhase \in {"classified", "decided"} =>
        /\ \A k \in 1..Len(cIn) :
              TakesFavIcon(cIn[k]) =>
                  cOut.changes[k].object.favIcon =
                      IF encodeBlob(cIn[k].object.favIcon).ok
                      THEN encodeBlob(cIn[k].object.favIcon).val
                      ELSE cIn[k].object.favIcon
        /\ \A j \in 1..Len(cOut.images) : cOut.images[j].collection # "favIcons"

C8_Witness ==
    /\ cPhase = "classified"
    /\ Len(cIn) = 2
    /\ TakesFavIcon(cIn[1]) /\ encodeBlob(cIn[1].object.favIcon).ok
    /\ TakesFavIcon(cIn[2]) /\ ~encodeBlob(cIn[2].object.favIcon).ok
    /\ cOut.changes[1].object.favIcon = "encA"
    /\ cOut.changes[2].object.favIcon = "rawX"
    /\ cOut.images = <<>>

\* C10: shouldWriteImages(images, storeBlobs) is true exactly when storeBlobs
\* is true and images is non-empty, and the call leaves the classifier's
\* output as it was.
C10_ShouldWriteImages ==
    cPhase = "decided" =>
        /\ cDecision = (cFlag /\ Len(cOut.images) > 0)
        /\ cOut = separateDataFromImageChanges(cIn)

C10_Witness ==
    /\ cPhase = "decided"
    /\ cFlag
    /\ Len(cOut.images) = 2
    /\ cDecision

\* C18: classification keeps the change sequence: the returned changes have
\* the length and the record order of the input, every record that takes
\* neither the screenshot nor the favIcon branch (other collections, null
\* objects, null fields) is returned unchanged, and every image comes from a
\* record that took the screenshot branch.
C18_SequencePreserved ==
    cPhase \in {"classified", "decided"} =>
        /\ Len(cOut.changes) = Len(cIn)
        /\ \A k \in 1..Len(cIn) :
              /\ cOut.changes[k].collection = cIn[k].collection
              /\ cOut.changes[k].objectPk = cIn[k].objectPk
              /\ (~TakesScreenshot(cIn[k]) /\ ~TakesFavIcon(cIn[k])) =>
                    cOut.changes[k] = cIn[k]
        /\ Len(cOut.images) <= Cardinality({k \in 1..Len(cIn) : TakesScreenshot(cIn[k])})
        /\ \A j \in 1..Len(cOut.images) :
              \E k \in 1..Len(cIn) :
                  /\ TakesScreenshot(cIn[k])
                  /\ cOut.images[j].collection = cIn[k].collection
                  /\ cOut.images[j].pk = cIn[k].objectPk

C18_Witness ==
    /\ cPhase = "classified"
    /\ Len(cIn) = 2
    /\ cIn[1].collection = "customLists"
    /\ cIn[1].object # NullObject
    /\ cIn[1].object.screenshot = "rawA"
    /\ cIn[2].collection = "pages"
    /\ cIn[2].object = NullObject
    /\ cOut.changes = cIn
    /\ cOut.images = <<>>

\* ------------------------------------------ listObjects, deleteObject (SpecRemote)
\* Characters of a listing body: "H" stands for the text href= , "Q" for a
\* double quote, "N" for a newline, "a" and "b" for any other character.
\* The lines a server may send:
ListingLines ==
    { <<>>,
      <<"a">>,
      <<"H", "Q", "a", "Q">>,
      <<"a", "H", "Q", "b", "Q", "a">>,
      <<"H", "Q", "Q">>,
      <<"H", "Q", "a">>,
      <<"H", "Q", "a", "Q", "H", "Q", "b", "Q">>,
      <<"H", "Q", "Q", "H", "Q", "b", "Q">>,
      <<"H", "Q", "a", "H", "Q", "b", "Q">> }

RECURSIVE JoinLines(_)
\* The text whose lines are `lines` (at least one line).
JoinLines(lines) ==
    IF Len(lines) = 1 THEN lines[1]
    ELSE lines[1] \o <<"N">> \o JoinLines(Tail(lines))

\* HTTP statuses of a listing response; response.ok is 200..299.
Statuses == {200, 404, 403, 500}
ResponseOk(status) == status \in 200..299

\* What fetch can settle with for GET {url}/{collection}: a response, or a
\* rejection when the network fails.  `lines` records the lines the body was
\* put together from.
ListingResponses ==
    { [kind |-> "response", status |-> st, body |-> JoinLines(ls), lines |-> ls] :
        st \in Statuses, ls \in SeqsUpTo(ListingLines, MaxLines) \ {<<>>} }
    \cup {[kind |-> "rejected"]}

RECURSIVE Split(_)
\* body.split('\n')
Split(body) ==
    IF \A k \in 1..Len(body) : body[k] # "N"
    THEN <<body>>
    ELSE LET n == CHOOSE k \in 1..Len(body) :
                     /\ body[k] = "N"
                     /\ \A j \in 1..(k - 1) : body[j] # "N"
         IN  <<SubSeq(body, 1, n - 1)>> \o Split(SubSeq(body, n + 1, Len(body)))

RECURSIVE QuoteFrom(_, _)
\* The first position at or after q that holds a double quote, or
\* Len(line) + 1 when there is none: where the greedy [^"]+ stops.
QuoteFrom(line, q) ==
    IF q > Len(line) \/ line[q] = "Q" THEN q ELSE QuoteFrom(line, q + 1)

\* /href="([^"]+)"/ matches with its first character at position p.
MatchesAt(line, p) ==
    /\ p + 1 <= Len(line)
    /\ line[p] = "H"
    /\ line[p + 1] = "Q"
    /\ QuoteFrom(line, p + 2) > p + 2
    /\ QuoteFrom(line, p + 2) <= Len(line)

NoMatch == [matched |-> FALSE]

RECURSIVE ExecFrom(_, _)
\* RegExp.exec: the leftmost match at or after position p; match[1] is the
\* captured group.
ExecFrom(line, p) ==
    IF p > Len(line) THEN NoMatch
    ELSE IF MatchesAt(line, p)
    THEN [matched |-> TRUE,
          group |-> SubSeq(line, p + 2, QuoteFrom(line, p + 2) - 1)]
    ELSE ExecFrom(line, p + 1)

\* /href="([^"]+)"/g.exec(line) on a fresh regular expression.
HrefExec(line) == ExecFrom(line, 1)

RECURSIVE FileNames(_)
\* matches.filter(match => !!match).map(match => match[1])
FileNames(lines) ==
    IF lines = <<>> THEN <<>>
    ELSE (IF HrefExec(Head(lines)).matched
          THEN <<HrefExec(Head(lines)).group>> ELSE <<>>)
         \o FileNames(Tail(lines))

RECURSIVE Deduplicated(_)
Deduplicated(keys) ==
    IF keys = <<>> THEN <<>>
    ELSE LET front == Deduplicated(SubSeq(keys, 1, Len(keys) - 1))
         IN  IF \E k \in 1..Len(front) : front[k] = keys[Len(keys)]
             THEN front ELSE Append(front, keys[Len(keys)])

\* Variant: the keys are collected into a set, which drops repeated keys.
ParseListingDeduplicates(body) == Deduplicated(FileNames(Split(body)))

\* The parsing half of listObjects.
ParseListing(body) == FileNames(Split(body))

\* Variant: response.ok is tested before the 404 case.
listObjectsSettlesOkFirst(response) ==
    IF response.kind = "rejected" THEN [kind |-> "rejected"]
    ELSE IF ~ResponseOk(response.status)
    THEN [kind |-> "error", message |-> response.body]
    ELSE [kind |-> "keys", keys |-> ParseListing(response.body)]

\* What listObjects settles with, given what fetch settled with.
listObjectsSettles(response) ==
    IF response.kind = "rejected" THEN [kind |-> "rejected"]
    ELSE IF response.status = 404 THEN [kind |-> "keys", keys |-> <<>>]
    ELSE IF ~ResponseOk(response.status)
    THEN [kind |-> "error", message |-> response.body]
    ELSE [kind |-> "keys", keys |-> ParseListing(response.body)]

Pending == [kind |-> "pending"]
\* new Error('Not yet implemented  :(')
NotImplemented == [kind |-> "error", message |-> "Not yet implemented  :("]

\* A remote store that holds one change-sets object.
SeededStore ==
    [p \in Paths |-> IF p = <<"change-sets", 1>>
                     THEN ChangesBody(1, <<listRec>>) ELSE Absent]

InitRemote ==
    /\ calls = <<>>
    /\ clock = 1
    /\ store = SeededStore
    /\ writtenBy = [p \in Paths |-> Nobody]
    /\ captured = 0
    /\ cIn = <<>>
    /\ cPhase = "unused"
    /\ cOut = NoOutput
    /\ cFlag = FALSE
    /\ cDecision = FALSE
    /\ RemoteUnused
    /\ ListsUnused

\* listObjects(collection) is called and issues its GET.
ListObjects(collection) ==
    /\ rResult # Pending
    /\ rRequests < MaxRequests
    /\ rOp' = [op |-> "listObjects", arg |-> collection]
    /\ rRequests' = rRequests + 1
    /\ rResponse' = NoResponse
    /\ rResult' = Pending
    /\ UNCHANGED <<vars, cvars, lvars>>

\* fetch settles and listObjects runs to its end.
ListSettles(response) ==
    /\ rOp.op = "listObjects"
    /\ rResult = Pending
    /\ rResponse' = response
    /\ rResult' = listObjectsSettles(response)
    /\ UNCHANGED <<rOp, rRequests, vars, cvars, lvars>>

\* Variant: deleteObject issues a DELETE that removes the object.
DeleteObjectImplemented(location) ==
    /\ rResult # Pending
    /\ rRequests < MaxRequests
    /\ rOp' = [op |-> "deleteObject", arg |-> location]
    /\ rRequests' = rRequests + 1
    /\ rResponse' = NoResponse
    /\ rResult' = [kind |-> "deleted"]
    /\ store' = [store EXCEPT ![location] = Absent]
    /\ UNCHANGED <<calls, clock, writtenBy, captured, cvars, lvars>>

\* deleteObject({ backupObject: location }) throws at once.
DeleteObject(location) ==
    /\ rResult # Pending
    /\ rOp' = [op |-> "deleteObject", arg |-> location]
    /\ rResponse' = NoResponse
    /\ rResult' = NotImplemented
    /\ UNCHANGED <<rRequests, vars, cvars, lvars>>

NextRemote ==
    \/ \E collection \in {"change-sets", "images"} : ListObjects(collection)
    \/ \E response \in ListingResponses : ListSettles(response)
    \/ \E location \in Paths : DeleteObject(location)

SpecRemote == InitRemote /\ [][NextRemote]_allvars

\* --------------------------------------------------------- claims (SpecRemote)
ListSettled == rOp.op = "listObjects" /\ rResult # Pending

\* C11: listObjects classifies the listing response by its status: 404 gives
\* the empty sequence and no error; any other status outside 200..299 gives
\* an error whose text is the response body; only a success response is
\* parsed into keys.
C11_ListingByStatus ==
    (ListSettled /\ rResponse.kind = "response") =>
        /\ rResponse.status = 404 => rResult = [kind |-> "keys", keys |-> <<>>]
        /\ (rResponse.status # 404 /\ ~(rResponse.status \in 200..299)) =>
              rResult = [kind |-> "error", message |-> rResponse.body]
        /\ rResponse.status \in 200..299 => rResult.kind = "keys"
        /\ (rResult.kind = "keys" /\ rResult.keys # <<>>) =>
              rResponse.status \in 200..299

C11_Witness ==
    /\ ListSettled
    /\ rResponse.kind = "response"
    /\ rResponse.status = 404
    /\ \E k \in 1..Len(rResponse.lines) : HrefExec(rResponse.lines[k]).matched
    /\ rResult = [kind |-> "keys", keys |-> <<>>]

\* The positions p, q of a line such that href=" starts at p and q is the
\* closing quote, with at least one character and no quote in between.
Tokens(line) ==
    {pq \in (1..Len(line)) \X (1..Len(line)) :
        /\ pq[2] >= pq[1] + 3
        /\ line[pq[1]] = "H"
        /\ line[pq[1] + 1] = "Q"
        /\ line[pq[2]] = "Q"
        /\ \A k \in (pq[1] + 2)..(pq[2] - 1) : line[k] # "Q"}

\* The value of the first href="<value>" token of a line that has one.
FirstTokenValue(line) ==
    LET first == CHOOSE pq \in Tokens(line) :
                     \A other \in Tokens(line) : pq[1] <= other[1]
    IN  SubSeq(line, first[1] + 2, first[2] - 1)

\* The lines that contain a token, as positions in line order.
TokenLines(lines) ==
    LET HasToken(k) == Tokens(lines[k]) # {}
    IN  SelectSeq([k \in 1..Len(lines) |-> k], HasToken)

\* C12: for a success response the keys are the href="<value>" token values
\* of the lines that contain such a token, one per such line, in line order;
\* lines without a token give nothing and repeated keys are kept.
C12_ListingParsed ==
    (ListSettled /\ rResponse.kind = "response" /\ rResponse.status = 200) =>
        /\ rResult.kind = "keys"
        /\ rResult.keys =
              [j \in 1..Len(TokenLines(rResponse.lines)) |->
                  FirstTokenValue(rResponse.lines[TokenLines(rResponse.lines)[j]])]

C12_Witness ==
    /\ ListSettled
    /\ rResponse.kind = "response"
    /\ rResponse.status = 200
    /\ Len(rResponse.lines) = 2
    /\ rResult.kind = "keys"
    /\ Len(rResult.keys) = 2
    /\ rResult.keys[1] = rResult.keys[2]
    /\ rResponse.lines[1] # rResponse.lines[2]

\* C13: deleteObject fails with the "not implemented" condition for every
\* argument, makes no fetch call and leaves the remote store as it was.
C13_DeleteNotImplemented ==
    [][\A location \in Paths :
          DeleteObject(location) =>
              /\ rResult' = NotImplemented
              /\ rRequests' = rRequests
              /\ store' = store]_allvars

C13_Witness ==
    /\ rOp.op = "deleteObject"
    /\ rOp.arg = <<"change-sets", 1>>
    /\ rResult = NotImplemented
    /\ Exists(<<"change-sets", 1>>)
    /\ rRequests = 1

\* -------------------------------------------------- CustomListStorage (SpecLists)
\* Values _generateListId() may return, and the pages put on lists.
ListIds == {1, 2}
PageUrls == {"u1"}
\* An operation that takes no pageUrl.
NoPage == "none"

InitLists ==
    /\ calls = <<>>
    /\ clock = 1
    /\ store = [p \in Paths |-> Absent]
    /\ writtenBy = [p \in Paths |-> Nobody]
    /\ captured = 0
    /\ cIn = <<>>
    /\ cPhase = "unused"
    /\ cOut = NoOutput
    /\ cFlag = FALSE
    /\ cDecision = FALSE
    /\ RemoteUnused
    /\ ListsUnused

\* The operations with one more, at its first await.
WithNewOp(op, pc, listId, pageUrl) ==
    Append(ops, [op |-> op, pc |-> pc, listId |-> listId, pageUrl |-> pageUrl])

\* insertCustomList({name}) is called: the id is _generateListId() and the
\* createObject request is issued.
InsertCustomList(id) ==
    /\ Len(ops) < MaxOps
    /\ ops' = WithNewOp("insertCustomList", "createList", id, NoPage)
    /\ UNCHANGED <<customLists, pageListEntries, vars, cvars, rvars>>

\* createObject on customLists completes and insertCustomList resolves.
CreateListReturns(i) ==
    /\ ops[i].pc = "createList"
    /\ customLists' = customLists \cup {ops[i].listId}
    /\ ops' = [ops EXCEPT ![i].pc = "resolved"]
    /\ UNCHANGED <<pageListEntries, vars, cvars, rvars>>

\* insertPageToList({listId, pageUrl, fullUrl}) is called: fetchListById
\* issues findOneObject({id}).
InsertPageToList(listId, pageUrl) ==
    /\ Len(ops) < MaxOps
    /\ ops' = WithNewOp("insertPageToList", "findList", listId, pageUrl)
    /\ UNCHANGED <<customLists, pageListEntries, vars, cvars, rvars>>

\* fetchListById: findOneObject answers; with no list it returns null, so
\* idExists is false and insertPageToList resolves without creating.
FindListReturns(i) ==
    /\ ops[i].pc = "findList"
    /\ ops' = [ops EXCEPT ![i].pc = IF ops[i].listId \in customLists
                                    THEN "findPages" ELSE "resolved"]
    /\ UNCHANGED <<customLists, pageListEntries, vars, cvars, rvars>>

\* fetchListById: findObjects({listId}) answers and the list is returned;
\* idExists is true and createObject is issued.
FindPagesReturns(i) ==
    /\ ops[i].pc = "findPages"
    /\ ops' = [ops EXCEPT ![i].pc = "createEntry"]
    /\ UNCHANGED <<customLists, pageListEntries, vars, cvars, rvars>>

\* createObject on pageListEntries completes.
CreateEntryReturns(i) ==
    /\ ops[i].pc = "createEntry"
    /\ pageListEntries' = pageListEntries \cup
          {[listId |-> ops[i].listId, pageUrl |-> ops[i].pageUrl]}
    /\ ops' = [ops EXCEPT ![i].pc = "resolved"]
    /\ UNCHANGED <<customLists, vars, cvars, rvars>>

\* removeList({id}) is called: deleteOneObject({id}) is issued.
RemoveList(id) ==
    /\ Len(ops) < MaxOps
    /\ ops' = WithNewOp("removeList", "deleteList", id, NoPage)
    /\ UNCHANGED <<customLists, pageListEntries, vars, cvars, rvars>>

\* deleteOneObject completes and deleteObjects({listId: id}) is issued.
DeleteListReturns(i) ==
    /\ ops[i].pc = "deleteList"
    /\ customLists' = customLists \ {ops[i].listId}
    /\ ops' = [ops EXCEPT ![i].pc = "deleteEntries"]
    /\ UNCHANGED <<pageListEntries, vars, cvars, rvars>>

\* deleteObjects completes and removeList resolves.
DeleteEntriesReturns(i) ==
    /\ ops[i].pc = "deleteEntries"
    /\ pageListEntries' = {e \in pageListEntries : e.listId # ops[i].listId}
    /\ ops' = [ops EXCEPT ![i].pc = "resolved"]
    /\ UNCHANGED <<customLists, vars, cvars, rvars>>

NextLists ==
    \/ \E id \in ListIds : InsertCustomList(id)
    \/ \E id \in ListIds, url \in PageUrls : InsertPageToList(id, url)
    \/ \E id \in ListIds : RemoveList(id)
    \/ \E i \in 1..Len(ops) : CreateListReturns(i)
    \/ \E i \in 1..Len(ops) : FindListReturns(i)
    \/ \E i \in 1..Len(ops) : FindPagesReturns(i)
    \/ \E i \in 1..Len(ops) : CreateEntryReturns(i)
    \/ \E i \in 1..Len(ops) : DeleteListReturns(i)
    \/ \E i \in 1..Len(ops) : DeleteEntriesReturns(i)

SpecLists == InitLists /\ [][NextLists]_allvars

\* ------------------------------------------------------- claims (SpecLists)
\* No operation is in progress.
NoOpInProgress == \A i \in 1..Len(ops) : ops[i].pc = "resolved"

\* C20: whenever no CustomListStorage operation is in progress, every
\* pageListEntries entry refers to a list that exists in customLists.
C20_EntriesReferToLists ==
    NoOpInProgress => \A e \in pageListEntries : e.listId \in customLists

====
